---- MODULE Spec2Model ----
(***************************************************************************)
(* Ephemeral-group lifecycle of until_gp: the AsyncStorage-backed          *)
(* StorageService (src/src/services/storage.ts) with the screens that call *)
(* it, and the Supabase-backed SupabaseStorageService with the SQL schema  *)
(* and functions it relies on.                                             *)
(*                                                                         *)
(* Time is counted in half hours, the smallest duration the source uses    *)
(* (getDefaultGroups: lastActivity = now - 30 min).  A Date survives the   *)
(* JSON round trip of saveActiveGroups / parseGroups unchanged (ISO string *)
(* with millisecond precision), so a stored group is kept as the parsed    *)
(* record.  An optional field that is undefined / NULL holds Undefined     *)
(* (timestamps), NoCode (invite code), NoReason (disband reason) or 0      *)
(* (inactivityThreshold, messageLimit: the sweep tests them for            *)
(* truthiness, and 0 is falsy like undefined).                             *)
(***************************************************************************)
EXTENDS Integers, Sequences, FiniteSets, TLC

\* ---------------------------------------------------------------- units
HalfHour == 1
Hour == 2 * HalfHour
Day == 24 * Hour

\* program constants
RetentionDays == 30
InviteCodeDays == 7
DefaultInactivityThreshold == 3

\* ---------------------------------------------------------------- bounds
MaxAdvances == 3
MaxGroups == 1
MaxMessages == 1
MaxTasks == 2
MaxCalls == 4
MaxSubscriptions == 4

TimeSteps == {Hour, 21 * Hour, RetentionDays * Day}
Users == {"you", "ann", "bob"}
Codes == {"AAAAAA", "BBBBBB"}
TaskIds == 1..MaxTasks

Undefined == -1
NoCode == "none"
NoReason == "none"

\* ---------------------------------------------------------------- helpers
Range(s) == {s[i] : i \in 1..Len(s)}

\* Array.prototype.findIndex, 1-based; 0 when nothing matches
FindIndex(s, Test(_)) ==
  IF \E i \in 1..Len(s) : Test(s[i])
  THEN CHOOSE i \in 1..Len(s) : Test(s[i]) /\ \A j \in 1..(i - 1) : ~Test(s[j])
  ELSE 0

IndexOfId(s, id) == FindIndex(s, LAMBDA g : g.id = id)

\* ---------------------------------------------------------------- groups
NoGroup == [id |-> "none"]

\* LIFESPAN_OPTIONS durations
LifespanDuration(lifespan) ==
  CASE lifespan = "1_hour" -> Hour
    [] lifespan = "24_hours" -> Day
    [] lifespan = "3_days" -> 3 * Day
    [] lifespan = "7_days" -> 7 * Day
    [] OTHER -> Day

\* the Group literal of StorageService.createGroup
NewGroup(id, user, expirationTime, inviteCode, t) ==
  [id |-> id, status |-> "active", createdAt |-> t, createdBy |-> user,
   lastActivity |-> t, expirationTime |-> expirationTime,
   inactivityThreshold |-> 0, messageLimit |-> 0, messageCount |-> 0,
   messages |-> <<>>, members |-> <<user>>,
   inviteCode |-> inviteCode, inviteCodeExpiresAt |-> expirationTime,
   disbandedAt |-> Undefined, disbandReason |-> NoReason,
   archivedUntil |-> Undefined]

\* the two sample groups, with timestamps relative to the call
getDefaultGroups(t) ==
  << [id |-> "group-1", status |-> "active", createdAt |-> t - 2 * Day,
      createdBy |-> "tanaka", lastActivity |-> t - HalfHour,
      expirationTime |-> t + 5 * Day,
      inactivityThreshold |-> 0, messageLimit |-> 0, messageCount |-> 2,
      messages |-> <<"g1-1", "g1-2">>,
      members |-> <<"you", "tanaka", "sato", "yamada">>,
      inviteCode |-> NoCode, inviteCodeExpiresAt |-> Undefined,
      disbandedAt |-> Undefined, disbandReason |-> NoReason,
      archivedUntil |-> Undefined],
     [id |-> "group-2", status |-> "active", createdAt |-> t - 3 * Hour,
      createdBy |-> "suzuki", lastActivity |-> t - 2 * Hour,
      expirationTime |-> t + 21 * Hour,
      inactivityThreshold |-> 0, messageLimit |-> 0, messageCount |-> 2,
      messages |-> <<"g2-1", "g2-2">>,
      members |-> <<"you", "suzuki", "ito">>,
      inviteCode |-> NoCode, inviteCodeExpiresAt |-> Undefined,
      disbandedAt |-> Undefined, disbandReason |-> NoReason,
      archivedUntil |-> Undefined] >>

\* ------------------------------------------------- StorageService (pure)
\* loadGroups: the retention filter over the archived list
FilterArchived(archived, t) ==
  SelectSeq(archived, LAMBDA g : g.archivedUntil = Undefined \/ g.archivedUntil > t)

\* loadGroups: the value it returns
loadGroups(activeS, archivedS, t) ==
  [active |-> IF Len(activeS) > 0 THEN activeS ELSE getDefaultGroups(t),
   archived |-> FilterArchived(archivedS, t)]

\* loadGroup: first match in [...active, ...archived], NoGroup for null
loadGroup(activeS, archivedS, t, groupId) ==
  LET all == loadGroups(activeS, archivedS, t).active \o
             loadGroups(activeS, archivedS, t).archived
      i == IndexOfId(all, groupId)
  IN IF i > 0 THEN all[i] ELSE NoGroup

\* processExpiredGroups: the three archive triggers
isExpired(g, t) == g.expirationTime <= t

isInactive(g, t) ==
  g.inactivityThreshold # 0 /\ t - g.lastActivity > g.inactivityThreshold * Day

hasReachedMessageLimit(g) ==
  g.messageLimit # 0 /\ g.messageCount >= g.messageLimit

ShouldArchive(g, t) == isExpired(g, t) \/ isInactive(g, t) \/ hasReachedMessageLimit(g)

\* the ternary chain with the message limit tested first
DisbandReasonOf_limitFirst(g, t) ==
  IF hasReachedMessageLimit(g) THEN "message_limit"
  ELSE IF isExpired(g, t) THEN "time_expired"
  ELSE "inactivity"

DisbandReasonOf(g, t) ==
  IF isExpired(g, t) THEN "time_expired"
  ELSE IF isInactive(g, t) THEN "inactivity"
  ELSE "message_limit"

ArchivedUntilOf(t) == t + RetentionDays * Day

ArchivedGroup(g, t) ==
  [g EXCEPT !.status = "archived", !.disbandedAt = t,
            !.disbandReason = DisbandReasonOf(g, t),
            !.archivedUntil = ArchivedUntilOf(t)]

\* remainingTime / totalTime < 0.1 in IEEE doubles; only evaluated when the
\* group is not expired, so remainingTime > 0: for totalTime > 0 this is
\* 10 * remainingTime < totalTime, for totalTime = 0 the quotient is
\* +Infinity, for totalTime < 0 it is negative
\* the quotient compared with 0.2
PercentRemainingBelowTenth_fifth(g, t) ==
  LET totalTime == g.expirationTime - g.createdAt
      remainingTime == g.expirationTime - t
  IN IF totalTime > 0 THEN 5 * remainingTime < totalTime ELSE totalTime < 0

PercentRemainingBelowTenth(g, t) ==
  LET totalTime == g.expirationTime - g.createdAt
      remainingTime == g.expirationTime - t
  IN IF totalTime > 0 THEN 10 * remainingTime < totalTime ELSE totalTime < 0

MarkExpiringSoon(g, t) ==
  IF PercentRemainingBelowTenth(g, t) /\ g.status # "expiring_soon"
  THEN [g EXCEPT !.status = "expiring_soon"]
  ELSE g

MapSeq(s, F(_)) == [i \in 1..Len(s) |-> F(s[i])]

\* a sweep that marks the groups it archives but leaves them in the active list
stillActiveOf_keepsArchived(active, t) ==
  MapSeq(active, LAMBDA g : MarkExpiringSoon(g, t))

stillActiveOf(active, t) ==
  MapSeq(SelectSeq(active, LAMBDA g : ~ShouldArchive(g, t)),
         LAMBDA g : MarkExpiringSoon(g, t))

newlyArchivedOf(active, t) ==
  MapSeq(SelectSeq(active, LAMBDA g : ShouldArchive(g, t)),
         LAMBDA g : ArchivedGroup(g, t))

\* processExpiredGroups run to completion on its own: the two lists it
\* leaves in storage (it writes them only when it archived something)
processExpiredGroups(activeS, archivedS, t) ==
  LET loaded == loadGroups(activeS, archivedS, t)
  IN IF Len(newlyArchivedOf(loaded.active, t)) > 0
     THEN [active |-> stillActiveOf(loaded.active, t),
           archived |-> loaded.archived \o newlyArchivedOf(loaded.active, t)]
     ELSE [active |-> activeS, archived |-> loaded.archived]

\* saveGroup: replace the entry with the same id, or push
SaveGroupInto(list, group) ==
  LET i == IndexOfId(list, group.id)
  IN IF i > 0 THEN [list EXCEPT ![i] = group] ELSE Append(list, group)

\* ---------------------------------------------------------------- state
VARIABLES
  backend,        \* which storage service the build runs against
  now,            \* the wall clock, in half hours
  advances,       \* how often the clock has been advanced
  activeStore,    \* AsyncStorage["@flowgroups_active_groups"]
  archivedStore,  \* AsyncStorage["@flowgroups_archived_groups"]
  tasks,          \* the asynchronous service calls in flight
  screen,         \* GroupChatScreen state: group, messages
  timers,         \* pending setTimeout(2000) callbacks of handleSendMessage
  nextGroupId,    \* how many groups have been created
  msgSeq,         \* how many messages have been composed
  dbGroups,       \* rows of public.groups, in insertion order
  dbMembers,      \* rows of public.group_members
  dbMessages,     \* rows of public.messages
  calls,          \* how many service calls and screen handlers have started
  sweptAt,        \* the clock reading of the latest processExpiredGroups call
  rejected,       \* the latest removeMember call that returned false
  home,           \* HomeScreen state: groups, currentTime
  migration,      \* DataMigrationService: progress of migrateAllData, legacy keys
  realtime        \* SupabaseStorageService: messageListeners and open channels

vars == <<backend, now, advances, activeStore, archivedStore, tasks, screen,
          timers, nextGroupId, msgSeq, dbGroups, dbMembers, dbMessages, calls,
          sweptAt, rejected, home, migration, realtime>>

GroupIds == <<"g1", "g2", "g3", "g4">>

\* the legacy keys before migrateAllData has run
NotMigrated ==
  [pc |-> "idle", group |-> 0, message |-> 0, created |-> FALSE,
   groupCount |-> 0, messageCount |-> 0, errors |-> 0, success |-> FALSE,
   legacyKept |-> TRUE, completed |-> FALSE]

\* messageListeners = {} and no channel
NoChannels == [listeners |-> <<>>, channels |-> {}, unsubscribes |-> {}, subscribed |-> 0]
MessageIds == <<"m1", "m2", "m3", "m4">>

NoRemoval == [group |-> "none", member |-> "none", by |-> "none"]

IdleTask ==
  [pc |-> "idle", op |-> "none", user |-> "none", code |-> NoCode,
   group |-> NoGroup, active |-> <<>>, archived |-> <<>>]

\* a call that goes on to `await this.saveGroup(group)`
ToSave(op, user, code, group) ==
  [IdleTask EXCEPT !.pc = "save", !.op = op, !.user = user, !.code = code,
                   !.group = group]

\* ------------------------------------------------- StorageService (steps)
\* Every call of loadGroups also writes the filtered archived list back when
\* the filter dropped something; the two getItem calls and that write are
\* taken as one step.
Purge == archivedStore' = FilterArchived(archivedStore, now)

Loaded == loadGroups(activeStore, archivedStore, now)

\* HomeScreen.handleCreateGroup -> StorageService.createGroup
CreateGroup(k, lifespan, inviteCode) ==
  /\ backend = "local"
  /\ tasks[k].pc = "idle"
  /\ nextGroupId < MaxGroups
  /\ nextGroupId' = nextGroupId + 1
  /\ tasks' = [tasks EXCEPT ![k] =
       ToSave("createGroup", "you", inviteCode,
              NewGroup(GroupIds[nextGroupId + 1], "you",
                       now + LifespanDuration(lifespan), inviteCode, now))]
  /\ UNCHANGED <<activeStore, archivedStore, screen, timers, msgSeq>>

\* joinGroupWithCode up to its `await this.saveGroup(group)`
MatchesCode(g, inviteCode, t) ==
  /\ g.inviteCode = inviteCode
  /\ g.inviteCodeExpiresAt # Undefined
  /\ g.inviteCodeExpiresAt > t

JoinedGroup(g, userId, t) ==
  [g EXCEPT !.members = Append(@, userId),
            !.messages = Append(@, "system"),
            !.lastActivity = t]

\* joinGroupWithCode: activeGroups.find(...), 0 for no match
ResolveCode(active, inviteCode, t) ==
  FindIndex(active, LAMBDA g : MatchesCode(g, inviteCode, t))

JoinGroupWithCode(k, inviteCode, userId) ==
  /\ backend = "local"
  /\ tasks[k].pc = "idle"
  /\ Purge
  /\ LET i == ResolveCode(Loaded.active, inviteCode, now)
     IN tasks' = [tasks EXCEPT ![k] =
          IF i = 0 THEN IdleTask
          ELSE IF userId \in Range(Loaded.active[i].members)
          THEN IdleTask
          ELSE ToSave("joinGroupWithCode", userId, inviteCode,
                      JoinedGroup(Loaded.active[i], userId, now))]
  /\ UNCHANGED <<activeStore, screen, timers, msgSeq, nextGroupId>>

\* regenerateInviteCode up to its `await this.saveGroup(group)`
RegenerateInviteCode(k, groupId, newCode) ==
  /\ backend = "local"
  /\ tasks[k].pc = "idle"
  /\ Purge
  /\ LET group == loadGroup(activeStore, archivedStore, now, groupId)
     IN tasks' = [tasks EXCEPT ![k] =
          IF group = NoGroup \/ group.status = "archived"
          THEN IdleTask
          ELSE ToSave("regenerateInviteCode", groupId, newCode,
                      [group EXCEPT !.inviteCode = newCode,
                                    !.inviteCodeExpiresAt = group.expirationTime])]
  /\ UNCHANGED <<activeStore, screen, timers, msgSeq, nextGroupId>>

\* removeMember up to its `await this.saveGroup(group)`
RemovedGroup(g, memberId, t) ==
  [g EXCEPT !.members = SelectSeq(@, LAMBDA m : m # memberId),
            !.messages = Append(@, "system"),
            !.lastActivity = t]

\* removeMember without its `memberId === group.createdBy` test
RemoveMemberRejected_noCreatorTest(group, memberId, removedBy) ==
  \/ group = NoGroup
  \/ group.status = "archived"
  \/ group.createdBy # removedBy
  \/ memberId \notin Range(group.members)

RemoveMemberRejected(group, memberId, removedBy) ==
  \/ group = NoGroup
  \/ group.status = "archived"
  \/ group.createdBy # removedBy
  \/ memberId = group.createdBy
  \/ memberId \notin Range(group.members)

\* removeMember with only its first test (`!group || status === "archived"`)
RemoveMember_anyActor(k, groupId, memberId, removedBy) ==
  /\ backend = "local"
  /\ tasks[k].pc = "idle"
  /\ Purge
  /\ LET group == loadGroup(activeStore, archivedStore, now, groupId)
     IN /\ tasks' = [tasks EXCEPT ![k] =
          IF group = NoGroup \/ group.status = "archived"
          THEN IdleTask
          ELSE ToSave("removeMember", removedBy, memberId,
                      RemovedGroup(group, memberId, now))]
        /\ rejected' = IF group = NoGroup \/ group.status = "archived"
                       THEN [group |-> groupId, member |-> memberId, by |-> removedBy]
                       ELSE rejected
  /\ UNCHANGED <<activeStore, screen, timers, msgSeq, nextGroupId>>

RemoveMember(k, groupId, memberId, removedBy) ==
  /\ backend = "local"
  /\ tasks[k].pc = "idle"
  /\ Purge
  /\ LET group == loadGroup(activeStore, archivedStore, now, groupId)
     IN /\ tasks' = [tasks EXCEPT ![k] =
          IF RemoveMemberRejected(group, memberId, removedBy)
          THEN IdleTask
          ELSE ToSave("removeMember", removedBy, memberId,
                      RemovedGroup(group, memberId, now))]
        /\ rejected' = IF RemoveMemberRejected(group, memberId, removedBy)
                       THEN [group |-> groupId, member |-> memberId, by |-> removedBy]
                       ELSE rejected
  /\ UNCHANGED <<activeStore, screen, timers, msgSeq, nextGroupId>>

\* processExpiredGroups up to `await this.saveActiveGroups(stillActive)`
ProcessExpiredGroups(k) ==
  /\ backend = "local"
  /\ tasks[k].pc = "idle"
  /\ Purge
  /\ tasks' = [tasks EXCEPT ![k] =
       IF Len(newlyArchivedOf(Loaded.active, now)) > 0
       THEN [IdleTask EXCEPT !.pc = "sweepActive", !.op = "processExpiredGroups",
               !.active = processExpiredGroups(activeStore, archivedStore, now).active,
               !.archived = processExpiredGroups(activeStore, archivedStore, now).archived]
       ELSE IdleTask]
  /\ UNCHANGED <<activeStore, screen, timers, msgSeq, nextGroupId>>

\* saveGroup up to its setItem: loadGroups, then replace-or-push
SaveGroupLoad(k) ==
  /\ tasks[k].pc = "save"
  /\ Purge
  /\ tasks' = [tasks EXCEPT ![k] =
       IF tasks[k].group.status = "archived"
       THEN [@ EXCEPT !.pc = "saveArchived",
                      !.archived = SaveGroupInto(Loaded.archived, tasks[k].group)]
       ELSE [@ EXCEPT !.pc = "saveActive",
                      !.active = SaveGroupInto(Loaded.active, tasks[k].group)]]
  /\ UNCHANGED <<activeStore, screen, timers, msgSeq, nextGroupId>>

\* what handleSendMessage does after `await StorageService.saveGroup(...)`:
\* setGroup(updatedGroup) and setTimeout(..., 2000)
AfterSaved(k) ==
  IF tasks[k].op = "handleSendMessage"
  THEN /\ screen' = [screen EXCEPT !.group = tasks[k].group]
       /\ timers' = Append(timers, tasks[k].group)
  ELSE UNCHANGED <<screen, timers>>

\* saveActiveGroups: AsyncStorage.setItem(ACTIVE_GROUPS_KEY, ...)
SaveActiveGroups(k) ==
  /\ tasks[k].pc \in {"saveActive", "sweepActive"}
  /\ activeStore' = tasks[k].active
  /\ IF tasks[k].pc = "sweepActive"
     THEN /\ tasks' = [tasks EXCEPT ![k].pc = "saveArchived"]
          /\ UNCHANGED <<screen, timers>>
     ELSE /\ tasks' = [tasks EXCEPT ![k] = IdleTask]
          /\ AfterSaved(k)
  /\ UNCHANGED <<archivedStore, msgSeq, nextGroupId>>

\* saveArchivedGroups: AsyncStorage.setItem(ARCHIVED_GROUPS_KEY, ...)
SaveArchivedGroups(k) ==
  /\ tasks[k].pc = "saveArchived"
  /\ archivedStore' = tasks[k].archived
  /\ tasks' = [tasks EXCEPT ![k] = IdleTask]
  /\ AfterSaved(k)
  /\ UNCHANGED <<activeStore, msgSeq, nextGroupId>>

\* ------------------------------------------------------- GroupChatScreen
\* loadGroup of the chat screen: setGroup / setMessages when found
OpenChat(groupId) ==
  /\ backend = "local"
  /\ Purge
  /\ LET loadedGroup == loadGroup(activeStore, archivedStore, now, groupId)
     IN /\ loadedGroup # NoGroup
        /\ screen' = [group |-> loadedGroup, messages |-> loadedGroup.messages]
  /\ UNCHANGED <<activeStore, tasks, timers, msgSeq, nextGroupId>>

\* handleSendMessage up to `await StorageService.saveGroup(updatedGroup)`;
\* guardArchived tells the two versions of the screen apart: only one of
\* them returns early for an archived group
handleSendMessage(k, guardArchived) ==
  /\ backend = "local"
  /\ tasks[k].pc = "idle"
  /\ screen.group # NoGroup
  /\ ~(guardArchived /\ screen.group.status = "archived")
  /\ msgSeq < MaxMessages
  /\ msgSeq' = msgSeq + 1
  /\ LET updatedMessages == Append(screen.messages, MessageIds[msgSeq + 1])
         updatedGroup == [screen.group EXCEPT !.messages = updatedMessages,
                                              !.lastActivity = now]
     IN /\ screen' = [screen EXCEPT !.messages = updatedMessages]
        /\ tasks' = [tasks EXCEPT ![k] =
             ToSave("handleSendMessage", "you", NoCode, updatedGroup)]
  /\ UNCHANGED <<activeStore, archivedStore, timers, nextGroupId>>

\* the setTimeout(2000) callback: setMessages, saveGroup(deliveredGroup)
\* (not awaited), setGroup.  The message status it changes is not part of
\* the group records kept here, so deliveredGroup equals updatedGroup.
DeliveryTimer(k) ==
  /\ backend = "local"
  /\ tasks[k].pc = "idle"
  /\ Len(timers) > 0
  /\ timers' = Tail(timers)
  /\ screen' = [group |-> Head(timers), messages |-> Head(timers).messages]
  /\ tasks' = [tasks EXCEPT ![k] = ToSave("deliver", "you", NoCode, Head(timers))]
  /\ UNCHANGED <<activeStore, archivedStore, msgSeq, nextGroupId>>

\* ---------------------------------------------------------------- clock
Advance(d) ==
  /\ advances < MaxAdvances
  /\ advances' = advances + 1
  /\ now' = now + d

\* ------------------------------------------------------ Supabase schema
\* getLifespanHours
getLifespanHours(lifespan) ==
  CASE lifespan = "hour" -> 1
    [] lifespan = "day" -> 24
    [] lifespan = "week" -> 168
    [] lifespan = "month" -> 720
    [] OTHER -> 0

\* generate_invite_code: loops until the code is on no row of public.groups
CodeIsFree(code) == \A i \in 1..Len(dbGroups) : dbGroups[i].invite_code # code

\* the row INSERT INTO groups produces: column defaults, then the
\* BEFORE INSERT trigger set_group_invite_code
NewGroupRow(id, user, expiresAt, inactivityDays, messageLimit, code, t) ==
  [id |-> id, created_by |-> user, created_at |-> t, expires_at |-> expiresAt,
   inactivity_threshold |->
     IF inactivityDays = Undefined THEN DefaultInactivityThreshold ELSE inactivityDays,
   message_limit |-> messageLimit, status |-> "active",
   invite_code |-> code, invite_code_expires_at |-> t + InviteCodeDays * Day,
   disbanded_at |-> Undefined, disband_reason |-> NoReason,
   archived_until |-> Undefined, last_activity |-> t]

MessageCountOf(messages, groupId) ==
  Cardinality({m \in messages : m.group_id = groupId})

\* process_expired_groups, one UPDATE statement each; every statement only
\* touches rows WHERE status = 'active'
ExpireByTime(rows, t) ==
  MapSeq(rows, LAMBDA r :
    IF r.status = "active" /\ r.expires_at # Undefined /\ r.expires_at < t
    THEN [r EXCEPT !.status = "archived", !.disbanded_at = t,
                   !.disband_reason = "expired"]
    ELSE r)

ExpireByInactivity(rows, t) ==
  MapSeq(rows, LAMBDA r :
    IF /\ r.status = "active"
       /\ r.inactivity_threshold # Undefined
       /\ r.last_activity < t - Day * r.inactivity_threshold
    THEN [r EXCEPT !.status = "archived", !.disbanded_at = t,
                   !.disband_reason = "inactive"]
    ELSE r)

ExpireByMessageLimit(rows, messages, t) ==
  MapSeq(rows, LAMBDA r :
    IF /\ r.status = "active"
       /\ r.message_limit # Undefined
       /\ MessageCountOf(messages, r.id) >= r.message_limit
    THEN [r EXCEPT !.status = "archived", !.disbanded_at = t,
                   !.disband_reason = "message_limit"]
    ELSE r)

\* expires_at > NOW() AND expires_at < NOW() + (expires_at - created_at) * 0.1
ExpiringWindow(createdAt, expiresAt, t) ==
  /\ expiresAt > t
  /\ 10 * (expiresAt - t) < expiresAt - createdAt

MarkExpiring(rows, t) ==
  MapSeq(rows, LAMBDA r :
    IF /\ r.status = "active"
       /\ r.expires_at # Undefined
       /\ ExpiringWindow(r.created_at, r.expires_at, t)
    THEN [r EXCEPT !.status = "expiring"]
    ELSE r)

process_expired_groups(rows, messages, t) ==
  MarkExpiring(
    ExpireByMessageLimit(
      ExpireByInactivity(ExpireByTime(rows, t), t), messages, t), t)

\* --------------------------------------------- SupabaseStorageService
IsMemberIn(members, groupId, user) ==
  \E i \in 1..Len(members) :
    members[i].group_id = groupId /\ members[i].user_id = user

IsMember(groupId, user) == IsMemberIn(dbMembers, groupId, user)

\* group_members without its primary key: every insert adds a row
InsertMember_noKey(members, groupId, user, role) ==
  Append(members, [group_id |-> groupId, user_id |-> user, role |-> role])

\* INSERT INTO group_members: PRIMARY KEY (group_id, user_id) rejects a
\* second row for the same pair
InsertMember(members, groupId, user, role) ==
  IF IsMemberIn(members, groupId, user)
  THEN members
  ELSE Append(members, [group_id |-> groupId, user_id |-> user, role |-> role])

\* createGroup up to the INSERT INTO group_members
DbCreateGroup(k, user, lifespan, inactivityDays, messageLimit, code) ==
  /\ backend = "supabase"
  /\ tasks[k].pc = "idle"
  /\ nextGroupId < MaxGroups
  /\ CodeIsFree(code)
  /\ nextGroupId' = nextGroupId + 1
  /\ LET expiresAt == IF lifespan # "custom" /\ getLifespanHours(lifespan) > 0
                      THEN now + getLifespanHours(lifespan) * Hour
                      ELSE Undefined
         row == NewGroupRow(GroupIds[nextGroupId + 1], user, expiresAt,
                            inactivityDays, messageLimit, code, now)
     IN /\ dbGroups' = Append(dbGroups, row)
        /\ tasks' = [tasks EXCEPT ![k] =
             [IdleTask EXCEPT !.pc = "dbInsertCreator", !.op = "createGroup",
                              !.user = user, !.group = row]]
  /\ UNCHANGED <<dbMembers, dbMessages>>

\* createGroup: add the creator as an admin member.  The insert can fail
\* (memberError), and createGroup then returns null with the group row kept.
DbInsertCreator(k, ok) ==
  /\ tasks[k].pc = "dbInsertCreator"
  /\ IF ok
     THEN dbMembers' = InsertMember(dbMembers, tasks[k].group.id, tasks[k].user, "admin")
     ELSE UNCHANGED dbMembers
  /\ tasks' = [tasks EXCEPT ![k] = IdleTask]
  /\ UNCHANGED <<dbGroups, dbMessages, nextGroupId>>

\* joinGroupWithCode: select the group by code and status, check the expiry
DbJoinSelectGroup(k, user, inviteCode) ==
  /\ backend = "supabase"
  /\ tasks[k].pc = "idle"
  /\ LET i == FindIndex(dbGroups, LAMBDA r :
                 r.invite_code = inviteCode /\ r.status = "active")
     IN tasks' = [tasks EXCEPT ![k] =
          IF i = 0
          THEN IdleTask
          ELSE IF /\ dbGroups[i].invite_code_expires_at # Undefined
                  /\ dbGroups[i].invite_code_expires_at < now
          THEN IdleTask
          ELSE [IdleTask EXCEPT !.pc = "dbJoinCheck", !.op = "joinGroupWithCode",
                                !.user = user, !.code = inviteCode,
                                !.group = dbGroups[i]]]
  /\ UNCHANGED <<dbGroups, dbMembers, dbMessages, nextGroupId>>

\* joinGroupWithCode: select the existing membership
DbJoinCheckMember(k) ==
  /\ tasks[k].pc = "dbJoinCheck"
  /\ tasks' = [tasks EXCEPT ![k] =
       IF IsMember(tasks[k].group.id, tasks[k].user)
       THEN IdleTask
       ELSE [@ EXCEPT !.pc = "dbJoinInsert"]]
  /\ UNCHANGED <<dbGroups, dbMembers, dbMessages, nextGroupId>>

\* joinGroupWithCode: insert the membership, then loadGroups and return the
\* caller's group (active or expiring) with that id
DbJoinInsert(k) ==
  /\ tasks[k].pc = "dbJoinInsert"
  /\ dbMembers' = InsertMember(dbMembers, tasks[k].group.id, tasks[k].user, "member")
  /\ tasks' = [tasks EXCEPT ![k] =
       IF IsMember(tasks[k].group.id, tasks[k].user)
       THEN IdleTask
       ELSE [@ EXCEPT !.pc = "dbJoinLoad"]]
  /\ UNCHANGED <<dbGroups, dbMessages, nextGroupId>>

DbJoinLoad(k) ==
  /\ tasks[k].pc = "dbJoinLoad"
  /\ tasks' = [tasks EXCEPT ![k] = IdleTask]
  /\ UNCHANGED <<dbGroups, dbMembers, dbMessages, nextGroupId>>

\* loadGroups: the caller's groups, split by status
DbLoadGroups(user) ==
  [active |-> SelectSeq(dbGroups, LAMBDA r :
                 IsMember(r.id, user) /\ r.status \in {"active", "expiring"}),
   archived |-> SelectSeq(dbGroups, LAMBDA r :
                 IsMember(r.id, user) /\ r.status = "archived")]

\* leaveGroup: delete the caller's membership row
DbLeaveGroup(user, groupId) ==
  /\ backend = "supabase"
  /\ IsMember(groupId, user)
  /\ dbMembers' = SelectSeq(dbMembers,
       LAMBDA m : ~(m.group_id = groupId /\ m.user_id = user))
  /\ UNCHANGED <<dbGroups, dbMessages, tasks, nextGroupId>>

\* sendMessage: membership check and INSERT INTO messages, whose trigger
\* update_group_last_activity sets groups.last_activity
DbSendMessage(user, groupId) ==
  /\ backend = "supabase"
  /\ IsMember(groupId, user)
  /\ Cardinality(dbMessages) < MaxMessages
  /\ dbMessages' = dbMessages \cup
       {[id |-> MessageIds[Cardinality(dbMessages) + 1], group_id |-> groupId,
         user_id |-> user]}
  /\ dbGroups' = MapSeq(dbGroups, LAMBDA r :
       IF r.id = groupId THEN [r EXCEPT !.last_activity = now] ELSE r)
  /\ UNCHANGED <<dbMembers, tasks, nextGroupId>>

\* processExpiredGroups: supabase.rpc('process_expired_groups')
DbProcessExpiredGroups ==
  /\ backend = "supabase"
  /\ dbGroups' = process_expired_groups(dbGroups, dbMessages, now)
  /\ UNCHANGED <<dbMembers, dbMessages, tasks, nextGroupId>>

\* ---------------------------------------------------------------- system
StartTime == 4 * Day

KnownGroupIds == {"group-1", "group-2"} \cup {GroupIds[i] : i \in 1..nextGroupId}
Unset == {Undefined}

Init ==
  /\ backend \in {"local", "supabase"}
  /\ now = StartTime
  /\ advances = 0
  /\ activeStore = <<>>
  /\ archivedStore = <<>>
  /\ tasks = [k \in TaskIds |-> IdleTask]
  /\ screen = [group |-> NoGroup, messages |-> <<>>]
  /\ timers = <<>>
  /\ nextGroupId = 0
  /\ msgSeq = 0
  /\ dbGroups = <<>>
  /\ dbMembers = <<>>
  /\ dbMessages = {}
  /\ calls = 0
  /\ sweptAt = Undefined
  /\ rejected = NoRemoval
  /\ home = [groups |-> <<>>, currentTime |-> now]
  /\ migration = NotMigrated
  /\ realtime = NoChannels

\* a new call or handler starts; a continuation of one in flight runs
Call == calls < MaxCalls /\ calls' = calls + 1 /\ UNCHANGED <<sweptAt, rejected>>
Sweep == calls < MaxCalls /\ calls' = calls + 1 /\ sweptAt' = now /\ UNCHANGED rejected
Remove == calls < MaxCalls /\ calls' = calls + 1 /\ UNCHANGED sweptAt
Step == UNCHANGED <<calls, sweptAt, rejected>>

\* task slots are interchangeable: a new call takes the lowest idle one
FreeSlot(k) ==
  /\ tasks[k].pc = "idle"
  /\ \A j \in TaskIds : j < k => tasks[j].pc # "idle"

LocalFrame ==
  UNCHANGED <<backend, migration, realtime, now, advances, dbGroups, dbMembers, dbMessages, home>>
DbFrame == UNCHANGED <<backend, migration, realtime, now, advances, activeStore, archivedStore, screen, home,
                       timers, msgSeq>>

\* the clock moves in half hours, the calls in flight and the two-second
\* delivery timers have long finished by then
Quiescent == (\A k \in TaskIds : tasks[k].pc = "idle") /\ timers = <<>>

Tick(steps) ==
  \E d \in steps :
    /\ Quiescent
    /\ Advance(d)
    /\ UNCHANGED <<backend, activeStore, archivedStore, tasks, screen, timers,
                   nextGroupId, msgSeq, dbGroups, dbMembers, dbMessages, calls,
                   sweptAt, rejected, home, migration, realtime>>

\* continuations of the asynchronous calls in flight
SaveSteps ==
  \/ \E k \in TaskIds : SaveGroupLoad(k) /\ LocalFrame /\ Step
  \/ \E k \in TaskIds : SaveActiveGroups(k) /\ LocalFrame /\ Step

LocalSteps ==
  \/ SaveSteps
  \/ \E k \in TaskIds : SaveArchivedGroups(k) /\ LocalFrame /\ Step

LocalInit == Init /\ backend = "local"

DbJoinSteps ==
  \/ \E k \in TaskIds : DbJoinCheckMember(k) /\ DbFrame /\ Step
  \/ \E k \in TaskIds : DbJoinInsert(k) /\ DbFrame /\ Step
  \/ \E k \in TaskIds : DbJoinLoad(k) /\ DbFrame /\ Step

\* ------------------------------------------------------------ life cycle
\* a group per backend through creation, messages, sweeps and retention
Next ==
  \/ Tick(TimeSteps)
  \/ \E k \in TaskIds : FreeSlot(k) /\ CreateGroup(k, "24_hours", "AAAAAA") /\ LocalFrame /\ Call
  \/ \E k \in TaskIds : FreeSlot(k) /\ ProcessExpiredGroups(k) /\ LocalFrame /\ Sweep
  \/ LocalSteps
  \/ \E k \in TaskIds, l \in {"day", "custom"}, i \in Unset \cup {1}, m \in Unset \cup {1} :
       FreeSlot(k) /\ DbCreateGroup(k, "you", l, i, m, "AAAAAA") /\ DbFrame /\ Call
  \/ \E k \in TaskIds : DbInsertCreator(k, TRUE) /\ DbFrame /\ Step
  \/ \E g \in KnownGroupIds : DbSendMessage("you", g) /\ DbFrame /\ Call
  \/ DbProcessExpiredGroups /\ DbFrame /\ Sweep

Spec == Init /\ [][Next]_vars

\* ------------------------------------------------------------ chat screen
\* the chat screen over the local store: a one-hour group, its messages and
\* delivery timers, racing the sweep
ChatNext ==
  \/ Tick({Hour})
  \/ \E k \in TaskIds : FreeSlot(k) /\ CreateGroup(k, "1_hour", "AAAAAA") /\ LocalFrame /\ Call
  \/ \E k \in TaskIds : FreeSlot(k) /\ ProcessExpiredGroups(k) /\ LocalFrame /\ Sweep
  \/ LocalSteps
  \/ \E g \in KnownGroupIds : OpenChat(g) /\ LocalFrame /\ Call
  \/ \E k \in TaskIds, b \in BOOLEAN :
       FreeSlot(k) /\ handleSendMessage(k, b) /\ LocalFrame /\ Call
  \/ \E k \in TaskIds : FreeSlot(k) /\ DeliveryTimer(k) /\ LocalFrame /\ Step

SpecChat == LocalInit /\ [][ChatNext]_vars

\* ------------------------------------------------------------ invites
\* joins racing each other and an invite regeneration on one group
JoinNext ==
  \/ \E k \in TaskIds, c \in Codes :
       FreeSlot(k) /\ CreateGroup(k, "24_hours", c) /\ LocalFrame /\ Call
  \/ \E k \in TaskIds, c \in Codes, u \in Users \ {"you"} :
       FreeSlot(k) /\ JoinGroupWithCode(k, c, u) /\ LocalFrame /\ Call
  \/ \E k \in TaskIds, g \in KnownGroupIds, c \in Codes :
       FreeSlot(k) /\ RegenerateInviteCode(k, g, c) /\ LocalFrame /\ Call
  \/ SaveSteps
  \/ \E k \in TaskIds, c \in Codes :
       FreeSlot(k) /\ DbCreateGroup(k, "you", "day", Undefined, Undefined, c) /\ DbFrame /\ Call
  \/ \E k \in TaskIds, ok \in BOOLEAN : DbInsertCreator(k, ok) /\ DbFrame /\ Step
  \/ \E k \in TaskIds, c \in Codes, u \in Users \ {"you"} :
       FreeSlot(k) /\ DbJoinSelectGroup(k, u, c) /\ DbFrame /\ Call
  \/ DbJoinSteps

SpecJoin == Init /\ [][JoinNext]_vars

\* ------------------------------------------------------ invites over time
\* a group whose invite code is used while the clock and the sweep move the
\* group through its life
InviteNext ==
  \/ Tick(TimeSteps)
  \/ \E k \in TaskIds : FreeSlot(k) /\ CreateGroup(k, "24_hours", "AAAAAA") /\ LocalFrame /\ Call
  \/ \E k \in TaskIds : FreeSlot(k) /\ ProcessExpiredGroups(k) /\ LocalFrame /\ Sweep
  \/ \E k \in TaskIds :
       FreeSlot(k) /\ JoinGroupWithCode(k, "AAAAAA", "ann") /\ LocalFrame /\ Call
  \/ LocalSteps
  \/ \E k \in TaskIds :
       FreeSlot(k) /\ DbCreateGroup(k, "you", "day", Undefined, Undefined, "AAAAAA")
         /\ DbFrame /\ Call
  \/ \E k \in TaskIds : DbInsertCreator(k, TRUE) /\ DbFrame /\ Step
  \/ \E k \in TaskIds :
       FreeSlot(k) /\ DbJoinSelectGroup(k, "ann", "AAAAAA") /\ DbFrame /\ Call
  \/ DbJoinSteps
  \/ DbProcessExpiredGroups /\ DbFrame /\ Sweep

SpecInvite == Init /\ [][InviteNext]_vars

\* --------------------------------------------------- concurrent sweeps
\* each processExpiredGroups call reads the clock for itself (`new Date()`
\* after its loadGroups): a call that starts while another one is between
\* its awaits reads a later clock
ClockTick ==
  /\ \E k \in TaskIds : tasks[k].op = "processExpiredGroups"
  /\ Advance(HalfHour)
  /\ UNCHANGED <<backend, activeStore, archivedStore, tasks, screen, timers,
                 nextGroupId, msgSeq, dbGroups, dbMembers, dbMessages, calls,
                 sweptAt, rejected, home, migration, realtime>>

SweepsNext ==
  \/ Tick({Hour})
  \/ ClockTick
  \/ \E k \in TaskIds : FreeSlot(k) /\ CreateGroup(k, "1_hour", "AAAAAA") /\ LocalFrame /\ Call
  \/ \E k \in TaskIds : FreeSlot(k) /\ ProcessExpiredGroups(k) /\ LocalFrame /\ Sweep
  \/ LocalSteps
  \/ \E k \in TaskIds :
       FreeSlot(k) /\ DbCreateGroup(k, "you", "hour", Undefined, Undefined, "AAAAAA")
         /\ DbFrame /\ Call
  \/ \E k \in TaskIds : DbInsertCreator(k, TRUE) /\ DbFrame /\ Step
  \/ DbProcessExpiredGroups /\ DbFrame /\ Sweep

SpecSweeps == Init /\ [][SweepsNext]_vars

\* ------------------------------------------------------ periodic sweep
\* HomeScreen.loadGroups: the stored active groups, latest activity first
RECURSIVE SortByLastActivity(_)
SortByLastActivity(s) ==
  IF s = <<>> THEN <<>>
  ELSE LET rest == SortByLastActivity(SubSeq(s, 1, Len(s) - 1))
           g == s[Len(s)]
           n == Cardinality({i \in 1..Len(rest) :
                              rest[i].lastActivity >= g.lastActivity})
       IN SubSeq(rest, 1, n) \o <<g>> \o SubSeq(rest, n + 1, Len(rest))

\* HomeScreen.loadGroups, run on mount and on every focus: setGroups
HomeLoadGroups ==
  /\ backend = "local"
  /\ Purge
  /\ home' = [home EXCEPT !.groups =
       SortByLastActivity(SelectSeq(Loaded.active,
         LAMBDA g : g.status \in {"active", "expiring_soon"}))]
  /\ UNCHANGED <<backend, migration, realtime, now, advances, activeStore, tasks, screen, timers,
                 nextGroupId, msgSeq, dbGroups, dbMembers, dbMessages, calls,
                 sweptAt, rejected>>

\* the `groups` the interval callback reads. useEffect(..., []) creates the
\* callback once, in the first render, and the callback calls that render's
\* checkExpiredGroups, which closes over that render's `groups`: the initial
\* value of useState<Group[]>([]), whatever setGroups has stored since
IntervalGroups == <<>>

\* HomeScreen's setInterval callback, every second: setCurrentTime, then
\* checkExpiredGroups, which calls processExpiredGroups when one of its
\* groups has expired
HomeTimer ==
  /\ backend = "local"
  /\ home' = [home EXCEPT !.currentTime = now]
  /\ IF \E i \in 1..Len(IntervalGroups) : IntervalGroups[i].expirationTime <= now
     THEN /\ \E k \in TaskIds : FreeSlot(k) /\ ProcessExpiredGroups(k)
          /\ sweptAt' = now
     ELSE UNCHANGED <<activeStore, archivedStore, tasks, screen, timers,
                      nextGroupId, msgSeq, sweptAt>>
  /\ UNCHANGED <<backend, migration, realtime, now, advances, dbGroups, dbMembers, dbMessages, calls,
                 rejected>>

\* GroupProvider's setInterval callback, every minute: processExpiredGroups
ProviderTimer ==
  /\ DbProcessExpiredGroups
  /\ DbFrame
  /\ sweptAt' = now
  /\ UNCHANGED <<calls, rejected>>

LiveNext ==
  \/ Tick(TimeSteps)
  \/ \E k \in TaskIds : FreeSlot(k) /\ CreateGroup(k, "24_hours", "AAAAAA") /\ LocalFrame /\ Call
  \/ SaveSteps
  \/ HomeLoadGroups
  \/ HomeTimer
  \/ \E k \in TaskIds :
       FreeSlot(k) /\ DbCreateGroup(k, "you", "day", Undefined, Undefined, "AAAAAA")
         /\ DbFrame /\ Call
  \/ \E k \in TaskIds : DbInsertCreator(k, TRUE) /\ DbFrame /\ Step
  \/ ProviderTimer

\* the timers keep firing and the calls in flight run to their end
SpecLive ==
  /\ Init /\ [][LiveNext]_vars
  /\ WF_vars(HomeTimer) /\ WF_vars(ProviderTimer)
  /\ WF_vars(SaveSteps) /\ WF_vars(\E k \in TaskIds : DbInsertCreator(k, TRUE) /\ DbFrame /\ Step)

\* -------------------------------------------------------------- faults
\* saveActiveGroups when AsyncStorage.setItem rejects: the catch block logs
\* the error and the caller goes on as after a write
SaveActiveGroupsFails(k) ==
  /\ tasks[k].pc \in {"saveActive", "sweepActive"}
  /\ IF tasks[k].pc = "sweepActive"
     THEN /\ tasks' = [tasks EXCEPT ![k].pc = "saveArchived"]
          /\ UNCHANGED <<screen, timers>>
     ELSE /\ tasks' = [tasks EXCEPT ![k] = IdleTask]
          /\ AfterSaved(k)
  /\ UNCHANGED <<activeStore, archivedStore, msgSeq, nextGroupId>>

\* saveArchivedGroups when AsyncStorage.setItem rejects
SaveArchivedGroupsFails(k) ==
  /\ tasks[k].pc = "saveArchived"
  /\ tasks' = [tasks EXCEPT ![k] = IdleTask]
  /\ AfterSaved(k)
  /\ UNCHANGED <<activeStore, archivedStore, msgSeq, nextGroupId>>

\* the app is closed with calls in flight: their continuations and the
\* screens' state are gone, AsyncStorage stays
Interrupt ==
  /\ \E k \in TaskIds : tasks[k].pc # "idle"
  /\ tasks' = [k \in TaskIds |-> IdleTask]
  /\ timers' = <<>>
  /\ screen' = [group |-> NoGroup, messages |-> <<>>]
  /\ home' = [groups |-> <<>>, currentTime |-> now]
  /\ UNCHANGED <<backend, migration, realtime, now, advances, activeStore, archivedStore, nextGroupId,
                 msgSeq, dbGroups, dbMembers, dbMessages, calls, sweptAt, rejected>>

FaultsNext ==
  \/ Tick({Hour})
  \/ \E k \in TaskIds : FreeSlot(k) /\ CreateGroup(k, "1_hour", "AAAAAA") /\ LocalFrame /\ Call
  \/ \E k \in TaskIds : FreeSlot(k) /\ ProcessExpiredGroups(k) /\ LocalFrame /\ Sweep
  \/ LocalSteps
  \/ \E k \in TaskIds : SaveActiveGroupsFails(k) /\ LocalFrame /\ Step
  \/ \E k \in TaskIds : SaveArchivedGroupsFails(k) /\ LocalFrame /\ Step
  \/ Interrupt

SpecFaults == LocalInit /\ [][FaultsNext]_vars

\* ----------------------------------------------------- custom lifespan
MaxCustomDays == 30

\* handleCreateGroup with the 'custom' lifespan, up to its call of
\* StorageService.createGroup: the date is refused when it is more than 30
\* days away or not after Date.now()
HandleCreateGroup(k, customDate) ==
  /\ backend = "local"
  /\ tasks[k].pc = "idle"
  /\ tasks' = [tasks EXCEPT ![k] =
       IF customDate > now + MaxCustomDays * Day \/ customDate <= now
       THEN IdleTask
       ELSE [IdleTask EXCEPT !.pc = "create", !.op = "handleCreateGroup",
                             !.group = [id |-> "none", expirationTime |-> customDate]]]
  /\ UNCHANGED <<activeStore, archivedStore, screen, timers, msgSeq, nextGroupId>>

\* StorageService.createGroup after `await this.getCurrentUser()`: the new
\* group takes createdAt from the clock as it is now
CreateCustomGroup(k, inviteCode) ==
  /\ tasks[k].pc = "create"
  /\ nextGroupId < MaxGroups
  /\ nextGroupId' = nextGroupId + 1
  /\ tasks' = [tasks EXCEPT ![k] =
       ToSave("createGroup", "you", inviteCode,
              NewGroup(GroupIds[nextGroupId + 1], "you",
                       tasks[k].group.expirationTime, inviteCode, now))]
  /\ UNCHANGED <<activeStore, archivedStore, screen, timers, msgSeq>>

\* the clock as read by createGroup's `new Date()` is later than the one
\* handleCreateGroup compared the date with: two awaits lie between them
CreateClockTick ==
  /\ \E k \in TaskIds : tasks[k].pc = "create"
  /\ Advance(HalfHour)
  /\ UNCHANGED <<backend, activeStore, archivedStore, tasks, screen, timers,
                 nextGroupId, msgSeq, dbGroups, dbMembers, dbMessages, calls,
                 sweptAt, rejected, home, migration, realtime>>

CustomDates == {now - Hour, now + HalfHour, now + Day, now + (MaxCustomDays + 1) * Day}

CreateNext ==
  \/ Tick({Hour})
  \/ CreateClockTick
  \/ \E k \in TaskIds, d \in CustomDates :
       FreeSlot(k) /\ HandleCreateGroup(k, d) /\ LocalFrame /\ Call
  \/ \E k \in TaskIds : CreateCustomGroup(k, "AAAAAA") /\ LocalFrame /\ Step
  \/ \E k \in TaskIds : FreeSlot(k) /\ ProcessExpiredGroups(k) /\ LocalFrame /\ Sweep
  \/ LocalSteps
  \/ \E k \in TaskIds, l \in {"hour", "custom"} :
       FreeSlot(k) /\ DbCreateGroup(k, "you", l, Undefined, Undefined, "AAAAAA")
         /\ DbFrame /\ Call
  \/ \E k \in TaskIds : DbInsertCreator(k, TRUE) /\ DbFrame /\ Step
  \/ DbProcessExpiredGroups /\ DbFrame /\ Sweep

SpecCreate == Init /\ [][CreateNext]_vars

\* -------------------------------------------------- Supabase membership
DbInit == Init /\ backend = "supabase"

\* a group on Supabase, the users who join it with its code and leave it
RolesNext ==
  \/ \E k \in TaskIds :
       FreeSlot(k) /\ DbCreateGroup(k, "you", "day", Undefined, Undefined, "AAAAAA")
         /\ DbFrame /\ Call
  \/ \E k \in TaskIds : DbInsertCreator(k, TRUE) /\ DbFrame /\ Step
  \/ \E k \in TaskIds, u \in Users :
       FreeSlot(k) /\ DbJoinSelectGroup(k, u, "AAAAAA") /\ DbFrame /\ Call
  \/ DbJoinSteps
  \/ \E u \in Users, g \in KnownGroupIds : DbLeaveGroup(u, g) /\ DbFrame /\ Call

SpecRoles == DbInit /\ [][RolesNext]_vars

\* ------------------------------------------------------------ members
\* a group, the members who join it and the removals its screen can ask for
MembersNext ==
  \/ \E k \in TaskIds : FreeSlot(k) /\ CreateGroup(k, "24_hours", "AAAAAA") /\ LocalFrame /\ Call
  \/ \E k \in TaskIds, u \in Users \ {"you"} :
       FreeSlot(k) /\ JoinGroupWithCode(k, "AAAAAA", u) /\ LocalFrame /\ Call
  \/ \E k \in TaskIds, g \in KnownGroupIds, m \in Users, by \in Users :
       FreeSlot(k) /\ RemoveMember(k, g, m, by) /\ LocalFrame /\ Remove
  \/ SaveSteps

SpecMembers == LocalInit /\ [][MembersNext]_vars

\* ------------------------------------------------------- sweep decision
\* one stored group per backend with every combination of archive policy,
\* swept around the instants its triggers start to hold
EvalLifetime == 50 * Hour
EvalNows == {StartTime + 89 * HalfHour, StartTime + 2 * Day, StartTime + EvalLifetime}
EvalMessages == {[id |-> MessageIds[i], group_id |-> "g1", user_id |-> "you"] : i \in 1..2}

EvalGroup(inactivityDays, messageLimit, messageCount) ==
  [NewGroup("g1", "you", StartTime + EvalLifetime, "AAAAAA", StartTime)
     EXCEPT !.inactivityThreshold = inactivityDays,
            !.messageLimit = messageLimit,
            !.messageCount = messageCount,
            !.messages = SubSeq(MessageIds, 1, messageCount)]

EvalInit ==
  /\ backend \in {"local", "supabase"}
  /\ now \in EvalNows
  /\ advances = 0
  /\ tasks = [k \in TaskIds |-> IdleTask]
  /\ screen = [group |-> NoGroup, messages |-> <<>>]
  /\ timers = <<>>
  /\ nextGroupId = 1
  /\ msgSeq = 0
  /\ calls = 0
  /\ sweptAt = Undefined
  /\ rejected = NoRemoval
  /\ home = [groups |-> <<>>, currentTime |-> now]
  /\ migration = NotMigrated
  /\ realtime = NoChannels
  /\ archivedStore = <<>>
  /\ IF backend = "local"
     THEN /\ \E i \in {0, 2}, m \in {0, 2}, c \in {0, 2} :
               activeStore = <<EvalGroup(i, m, c)>>
          /\ dbGroups = <<>> /\ dbMembers = <<>> /\ dbMessages = {}
     ELSE /\ activeStore = <<>>
          /\ \E e \in {Undefined, StartTime + EvalLifetime},
                i \in {Undefined, 2}, m \in {Undefined, 2} :
               dbGroups = <<NewGroupRow("g1", "you", e, i, m, "AAAAAA", StartTime)>>
          /\ dbMembers = <<[group_id |-> "g1", user_id |-> "you", role |-> "admin"]>>
          /\ dbMessages \in {{}, EvalMessages}

EvalNext ==
  \/ Tick({HalfHour})
  \/ \E k \in TaskIds : FreeSlot(k) /\ ProcessExpiredGroups(k) /\ LocalFrame /\ Sweep
  \/ \E k \in TaskIds : SaveActiveGroups(k) /\ LocalFrame /\ Step
  \/ \E k \in TaskIds : SaveArchivedGroups(k) /\ LocalFrame /\ Step
  \/ DbProcessExpiredGroups /\ DbFrame /\ Sweep

SpecEval == EvalInit /\ [][EvalNext]_vars

\* ------------------------------------------------------------------
\* DataMigrationService: the legacy AsyncStorage keys moved to Supabase

\* the legacy keys 'active_groups', 'archived_groups' and 'messages': the
\* groups in the order migrateGroupsAndMessages visits them, each with the
\* messages stored under its id
LegacyGroups ==
  <<[id |-> "old1", lifespan |-> "24_hours", messages |-> <<"mm1", "mm2">>],
    [id |-> "old2", lifespan |-> "7_days", messages |-> <<"mm3">>]>>

\* the ids the database gives the rows of the migrated groups
MigratedIds == <<"mg1", "mg2">>

MigrationFrame ==
  UNCHANGED <<backend, now, advances, activeStore, archivedStore, tasks, screen,
              timers, nextGroupId, msgSeq, calls, sweptAt, rejected, home, realtime>>

\* the loops of migrateGroupsAndMessages move to the next legacy group
NextLegacyGroup(m) ==
  IF m.group < Len(LegacyGroups)
  THEN [m EXCEPT !.pc = "group", !.group = m.group + 1, !.message = 0, !.created = FALSE]
  ELSE [m EXCEPT !.pc = "finish", !.message = 0, !.created = FALSE]

\* migrateGroup returned: the group and all its legacy messages are counted
CountedGroup(m) ==
  [m EXCEPT !.groupCount = m.groupCount + 1,
            !.messageCount = m.messageCount + Len(LegacyGroups[m.group].messages)]

\* migrateAllData up to the first migrateGroup: the authentication check,
\* migrateSettings, the three getItem calls of migrateGroupsAndMessages
MigrateAllData(authenticated, settingsOk, loadOk) ==
  /\ backend = "supabase"
  /\ migration.pc = "idle"
  /\ migration' =
       IF ~authenticated
       THEN [migration EXCEPT !.pc = "done", !.errors = 1]
       ELSE LET m == [migration EXCEPT !.errors = IF settingsOk THEN 0 ELSE 1]
            IN IF ~loadOk
               THEN [m EXCEPT !.pc = "finish", !.errors = m.errors + 1]
               ELSE NextLegacyGroup(m)
  /\ UNCHANGED <<dbGroups, dbMembers, dbMessages>>

\* migrateGroup: supabaseService.createGroup, which returns null when either
\* insert fails; the throw is caught in the loop and only logged
MigrateGroup(outcome) ==
  /\ migration.pc = "group"
  /\ LET legacy == LegacyGroups[migration.group]
         id == MigratedIds[migration.group]
         expiresAt == IF legacy.lifespan # "custom" /\ getLifespanHours(legacy.lifespan) > 0
                      THEN now + getLifespanHours(legacy.lifespan) * Hour
                      ELSE Undefined
         row == NewGroupRow(id, "you", expiresAt, Undefined, Undefined,
                            CHOOSE c \in Codes : CodeIsFree(c), now)
     IN /\ dbGroups' = IF outcome = "groupError" THEN dbGroups ELSE Append(dbGroups, row)
        /\ dbMembers' = IF outcome = "ok"
                        THEN InsertMember(dbMembers, id, "you", "admin")
                        ELSE dbMembers
        /\ migration' =
             IF outcome # "ok" THEN NextLegacyGroup(migration)
             ELSE IF legacy.messages = <<>> THEN NextLegacyGroup(CountedGroup(migration))
             ELSE [migration EXCEPT !.pc = "message", !.message = 1, !.created = TRUE]
  /\ UNCHANGED dbMessages

\* migrateGroup: supabaseService.sendMessage for one legacy message; it
\* returns null when the insert fails and the result is not looked at
MigrateMessage(ok) ==
  /\ migration.pc = "message"
  /\ LET legacy == LegacyGroups[migration.group]
         id == MigratedIds[migration.group]
     IN /\ IF ok /\ IsMember(id, "you")
           THEN /\ dbMessages' = dbMessages \cup
                     {[id |-> legacy.messages[migration.message], group_id |-> id,
                       user_id |-> "you"]}
                /\ dbGroups' = MapSeq(dbGroups, LAMBDA r :
                     IF r.id = id THEN [r EXCEPT !.last_activity = now] ELSE r)
           ELSE UNCHANGED <<dbGroups, dbMessages>>
        /\ migration' =
             IF migration.message < Len(legacy.messages)
             THEN [migration EXCEPT !.message = migration.message + 1]
             ELSE NextLegacyGroup(CountedGroup(migration))
  /\ UNCHANGED dbMembers

\* migrateAllData after the loops: success, then cleanupLegacyData, whose
\* multiRemove or setItem can fail and is only logged
MigrateFinish(cleanup) ==
  /\ migration.pc = "finish"
  /\ LET success == migration.errors = 0
     IN migration' =
          [migration EXCEPT
             !.pc = "done", !.success = success,
             !.legacyKept = IF success /\ cleanup # "removeFails" THEN FALSE ELSE @,
             !.completed = IF success /\ cleanup = "ok" THEN TRUE ELSE @]
  /\ UNCHANGED <<dbGroups, dbMembers, dbMessages>>

MigrateNext ==
  \/ \E a, s, l \in BOOLEAN : MigrateAllData(a, s, l) /\ MigrationFrame
  \/ \E o \in {"ok", "groupError", "memberError"} : MigrateGroup(o) /\ MigrationFrame
  \/ \E ok \in BOOLEAN : MigrateMessage(ok) /\ MigrationFrame
  \/ \E c \in {"ok", "removeFails", "markFails"} : MigrateFinish(c) /\ MigrationFrame

SpecMigrate == DbInit /\ [][MigrateNext]_vars

\* ------------------------------------------------------------------
\* SupabaseStorageService.subscribeToMessages, for one group.  The n-th call
\* has listener n; a channel is named after the call that created it.

\* listeners.splice(listeners.indexOf(onMessage), 1)
Splice(listeners, n) == SelectSeq(listeners, LAMBDA l : l # n)

\* subscribeToMessages: push the listener, supabase.channel(...).on(...)
\* .subscribe(), return the unsubscribe function.  The client library either
\* makes a channel for every channel() call, or hands back the open channel
\* of that topic, on which a second subscribe() throws: then the listener
\* stays pushed and the caller gets no unsubscribe function.
SubscribeToMessages(reused) ==
  /\ backend = "supabase"
  /\ realtime.subscribed < MaxSubscriptions
  /\ reused => realtime.channels # {}
  /\ LET n == realtime.subscribed + 1
     IN realtime' =
          [listeners |-> Append(realtime.listeners, n),
           channels |-> IF reused THEN realtime.channels ELSE realtime.channels \cup {n},
           unsubscribes |-> IF reused THEN realtime.unsubscribes
                            ELSE realtime.unsubscribes \cup {n},
           subscribed |-> n]

\* the function subscribeToMessages returned to its n-th caller
Unsubscribe(n) ==
  /\ n \in realtime.unsubscribes
  /\ LET listeners == Splice(realtime.listeners, n)
     IN realtime' =
          [realtime EXCEPT
             !.listeners = listeners,
             !.channels = IF listeners = <<>> THEN @ \ {n} ELSE @]

RealtimeFrame ==
  UNCHANGED <<backend, now, advances, activeStore, archivedStore, tasks, screen,
              timers, nextGroupId, msgSeq, dbGroups, dbMembers, dbMessages, calls,
              sweptAt, rejected, home, migration>>

RealtimeNext ==
  \/ \E r \in BOOLEAN : SubscribeToMessages(r) /\ RealtimeFrame
  \/ \E n \in 1..MaxSubscriptions : Unsubscribe(n) /\ RealtimeFrame

SpecRealtime == DbInit /\ [][RealtimeNext]_vars

\* ================================================================ claims
StatusRank(status) ==
  CASE status = "active" -> 0
    [] status = "expiring_soon" -> 1
    [] status = "expiring" -> 1
    [] OTHER -> 2

\* what StorageService.loadGroup returns for groupId right now
Observed(groupId) == loadGroup(activeStore, archivedStore, now, groupId)

\* C1: a group's observed status never moves backwards: once Expiring it is
\* never Active again, once Archived it is never Active or Expiring again
C1_MonotonicStatus ==
  /\ [][\A id \in KnownGroupIds :
       LET before == Observed(id)
           after == loadGroup(activeStore', archivedStore', now', id)
       IN (before # NoGroup /\ after # NoGroup)
            => StatusRank(after.status) >= StatusRank(before.status)]_vars
  /\ [][\A i \in 1..Len(dbGroups) :
          StatusRank(dbGroups'[i].status) >= StatusRank(dbGroups[i].status)]_vars

\* C2: a second sweep at the same instant, with nothing changed in between,
\* changes nothing: the stored state after it equals the state after the first
C2_IdempotentSweep ==
  /\ LET once == processExpiredGroups(activeStore, archivedStore, now)
     IN processExpiredGroups(once.active, once.archived, now) = once
  /\ LET once == process_expired_groups(dbGroups, dbMessages, now)
     IN process_expired_groups(once, dbMessages, now) = once

\* a sweep at this instant has archived a group and every call has returned
C2_Witness ==
  /\ backend = "local"
  /\ sweptAt = now
  /\ Quiescent
  /\ \E i \in 1..Len(archivedStore) : archivedStore[i].disbandedAt = now
  /\ processExpiredGroups(activeStore, archivedStore, now) =
       [active |-> activeStore, archived |-> archivedStore]

\* a sweep started at this instant and every call has returned
Swept == sweptAt = now /\ Quiescent

ReasonKind(reason) ==
  CASE reason \in {"time_expired", "expired"} -> "time_expired"
    [] reason \in {"inactivity", "inactive"} -> "inactive"
    [] reason = "message_limit" -> "message_limit"
    [] OTHER -> "none"

\* the reason the priority time_expired > inactive > message_limit selects
\* for expiry e, last activity a, threshold d days (0: none), message count
\* c and limit m (0: none) at time t
PriorityReason(e, a, d, c, m, t) ==
  IF e # Undefined /\ e < t THEN "time_expired"
  ELSE IF d # 0 /\ t - a > d * Day THEN "inactive"
  ELSE IF m # 0 /\ c >= m THEN "message_limit"
  ELSE "none"

OrZero(x) == IF x = Undefined THEN 0 ELSE x

BelowTenth(c, e, t) == 10 * (e - t) < e - c

\* C4: after a sweep at time now, a stored group with createdAt < now <
\* absoluteExpiry and no archive trigger met is Expiring when less than
\* 0.10 of its lifetime remains and Active otherwise
C4_ExpiringThreshold ==
  Swept =>
    /\ \A i \in 1..Len(activeStore) :
         LET g == activeStore[i]
         IN (/\ g.createdAt < now /\ now < g.expirationTime
             /\ PriorityReason(g.expirationTime, g.lastActivity, g.inactivityThreshold,
                               g.messageCount, g.messageLimit, now) = "none")
            => g.status = IF BelowTenth(g.createdAt, g.expirationTime, now)
                          THEN "expiring_soon" ELSE "active"
    /\ \A i \in 1..Len(dbGroups) :
         LET r == dbGroups[i]
         IN (/\ r.status # "archived" /\ r.expires_at # Undefined
             /\ r.created_at < now /\ now < r.expires_at
             /\ PriorityReason(r.expires_at, r.last_activity, r.inactivity_threshold,
                               MessageCountOf(dbMessages, r.id),
                               OrZero(r.message_limit), now) = "none")
            => r.status = IF BelowTenth(r.created_at, r.expires_at, now)
                          THEN "expiring" ELSE "active"

\* the invite code the stored group carries
StoredCode(groupId) ==
  IF Observed(groupId) = NoGroup THEN NoCode ELSE Observed(groupId).inviteCode

\* a saveGroup of call op in slot k writes the active list in this step
SaveReturns(k, op) ==
  tasks[k].op = op /\ tasks[k].pc = "saveActive" /\ tasks'[k].pc = "idle"

\* C5: when regenerateInviteCode has stored the new code, a join with the
\* group's previous code finds no group and a join with the new code finds
\* that group, whatever code the generator returned
C5_CodeExclusivity ==
  [][\A k \in TaskIds :
       SaveReturns(k, "regenerateInviteCode") =>
         LET id == tasks[k].group.id
             old == StoredCode(id)
             active == loadGroups(activeStore', archivedStore', now').active
         IN /\ old # NoCode => ResolveCode(active, old, now') = 0
            /\ ResolveCode(active, tasks[k].code, now') # 0
            /\ active[ResolveCode(active, tasks[k].code, now')].id = id]_vars

MembersOf(group) == IF group = NoGroup THEN {} ELSE Range(group.members)

DbMembersOf(members, groupId) ==
  {members[i].user_id : i \in {j \in 1..Len(members) : members[j].group_id = groupId}}

\* C6: a join that succeeds adds its user to the stored member set and takes
\* nobody out of it, so two concurrent joins of different users leave both
C6_ConcurrentJoins ==
  [][\A k \in TaskIds :
       /\ SaveReturns(k, "joinGroupWithCode") =>
            LET after == loadGroup(activeStore', archivedStore', now', tasks[k].group.id)
            IN /\ MembersOf(Observed(tasks[k].group.id)) \subseteq MembersOf(after)
               /\ tasks[k].user \in MembersOf(after)
       /\ (tasks[k].pc = "dbJoinInsert" /\ tasks'[k].pc # "dbJoinInsert") =>
            /\ DbMembersOf(dbMembers, tasks[k].group.id)
                 \subseteq DbMembersOf(dbMembers', tasks[k].group.id)
            /\ tasks[k].user \in DbMembersOf(dbMembers', tasks[k].group.id)]_vars

MemberCount(members, user) ==
  Cardinality({i \in 1..Len(members) : members[i] = user})

DbMemberCount(members, groupId, user) ==
  Cardinality({i \in 1..Len(members) :
                 members[i].group_id = groupId /\ members[i].user_id = user})

NoDuplicateMembers ==
  /\ \A i \in 1..Len(activeStore \o archivedStore), u \in Users :
       MemberCount((activeStore \o archivedStore)[i].members, u) <= 1
  /\ \A i \in 1..Len(dbGroups), u \in Users :
       DbMemberCount(dbMembers, dbGroups[i].id, u) <= 1

\* C7: no group ever holds two membership records of one user, and when a
\* join returns its user has exactly one, also when another join of the same
\* user with the same code runs at the same time
C7_SingleMembership ==
  /\ []NoDuplicateMembers
  /\ [][\A k \in TaskIds :
          /\ SaveReturns(k, "joinGroupWithCode") =>
               MemberCount(loadGroup(activeStore', archivedStore', now',
                                     tasks[k].group.id).members, tasks[k].user) = 1
          /\ (tasks[k].pc = "dbJoinInsert" /\ tasks'[k].pc # "dbJoinInsert") =>
               DbMemberCount(dbMembers', tasks[k].group.id, tasks[k].user) = 1]_vars

\* two joins of one user into one group are both past the membership test
C7_Witness ==
  \E j \in TaskIds, k \in TaskIds :
    /\ j # k
    /\ tasks[j].op = "joinGroupWithCode" /\ tasks[k].op = "joinGroupWithCode"
    /\ tasks[j].user = tasks[k].user
    /\ tasks[j].group.id = tasks[k].group.id
    /\ tasks[j].pc = "dbJoinInsert" /\ tasks[k].pc = "dbJoinInsert"

\* C8: an archived group is returned, unchanged, by every read before its
\* archiving time plus 30 days, and by no read from then on
C8_RetentionPurge ==
  /\ \A i \in 1..Len(archivedStore) :
       LET g == archivedStore[i]
       IN g.disbandedAt # Undefined =>
            (g \in Range(Loaded.archived) <=> now < g.disbandedAt + RetentionDays * Day)
  /\ Swept =>
       \A i \in 1..Len(dbGroups) :
         LET r == dbGroups[i]
         IN (r.status = "archived" /\ IsMember(r.id, "you")) =>
              (r \in Range(DbLoadGroups("you").archived)
                 <=> now < r.disbanded_at + RetentionDays * Day)

\* C9: removeMember never accepts the creator as the member to remove,
\* whoever asks, and every stored group keeps its creator as a member
C9_CreatorImmunity ==
  /\ \A k \in TaskIds :
       tasks[k].op = "removeMember" =>
         /\ tasks[k].code # tasks[k].group.createdBy
         /\ tasks[k].group.createdBy \in MembersOf(tasks[k].group)
  /\ \A i \in 1..Len(activeStore \o archivedStore) :
       (activeStore \o archivedStore)[i].createdBy
         \in MembersOf((activeStore \o archivedStore)[i])

\* the creator of a group with other members asked to remove themselves and
\* was refused
C9_Witness ==
  /\ rejected.group # "none"
  /\ Observed(rejected.group) # NoGroup
  /\ rejected.member = Observed(rejected.group).createdBy
  /\ rejected.by = rejected.member
  /\ Cardinality(MembersOf(Observed(rejected.group))) > 1

IsArchivedRecord(status, at, reason, until) ==
  IF status = "archived"
  THEN /\ at # Undefined /\ reason # NoReason /\ until # Undefined
       /\ until = at + RetentionDays * Day
  ELSE at = Undefined /\ reason = NoReason /\ until = Undefined

\* C10: a group is Archived exactly when archivedAt, archiveReason and
\* archiveRetentionUntil are all set, with archiveRetentionUntil 30 days
\* after archivedAt; an Active or Expiring group has none of them
C10_ArchivedFields ==
  /\ \A i \in 1..Len(activeStore \o archivedStore) :
       LET g == (activeStore \o archivedStore)[i]
       IN IsArchivedRecord(g.status, g.disbandedAt, g.disbandReason, g.archivedUntil)
  /\ \A i \in 1..Len(dbGroups) :
       LET r == dbGroups[i]
       IN IsArchivedRecord(r.status, r.disbanded_at, r.disband_reason, r.archived_until)

\* C11: no two live (not archived) groups hold the same invite code at the
\* same time, in the local store and in public.groups
C11_UniqueCodes ==
  /\ \A i \in 1..Len(activeStore), j \in 1..Len(activeStore) :
       (/\ activeStore[i].id # activeStore[j].id
        /\ activeStore[i].status # "archived" /\ activeStore[j].status # "archived"
        /\ activeStore[i].inviteCode # NoCode)
       => activeStore[i].inviteCode # activeStore[j].inviteCode
  /\ \A i \in 1..Len(dbGroups), j \in 1..Len(dbGroups) :
       (/\ i # j
        /\ dbGroups[i].status # "archived" /\ dbGroups[j].status # "archived"
        /\ dbGroups[i].invite_code # NoCode)
       => dbGroups[i].invite_code # dbGroups[j].invite_code

\* C12: a join whose code matches and has not expired is accepted only for
\* a group whose status is Active: every join past the code lookup is one
\* into an Active group
C12_JoinOnlyActive ==
  \A k \in TaskIds :
    tasks[k].op = "joinGroupWithCode" => tasks[k].group.status = "active"

\* C13: whatever two concurrent sweeps do, the archive fields of a group
\* (disbandedAt, disbandReason, archivedUntil), once written, are never
\* overwritten: a group archived before and after a step keeps them
ArchiveFields(g) == <<g.disbandedAt, g.disbandReason, g.archivedUntil>>

C13_ArchivedOnce ==
  [][/\ \A i \in 1..Len(archivedStore), j \in 1..Len(archivedStore') :
          archivedStore[i].id = archivedStore'[j].id
            => ArchiveFields(archivedStore[i]) = ArchiveFields(archivedStore'[j])
     /\ \A i \in 1..Len(dbGroups) :
          dbGroups[i].status = "archived"
            => /\ dbGroups'[i].status = "archived"
               /\ dbGroups'[i].disbanded_at = dbGroups[i].disbanded_at
               /\ dbGroups'[i].disband_reason = dbGroups[i].disband_reason]_vars

\* C14: at the step that writes a membership (the join's setItem of the
\* active list, the insert into group_members), the code the join was made
\* with is still the unexpired code the stored group carries and the stored
\* group is Active
CodeValid(groupId, inviteCode) ==
  \A i \in 1..Len(activeStore) :
    activeStore[i].id = groupId
      => /\ activeStore[i].status = "active"
         /\ MatchesCode(activeStore[i], inviteCode, now)

DbCodeValid(groupId, inviteCode) ==
  \A i \in 1..Len(dbGroups) :
    dbGroups[i].id = groupId
      => /\ dbGroups[i].status = "active"
         /\ dbGroups[i].invite_code = inviteCode
         /\ \/ dbGroups[i].invite_code_expires_at = Undefined
            \/ dbGroups[i].invite_code_expires_at >= now

C14_JoinAtomic ==
  [][\A k \in TaskIds :
       /\ SaveReturns(k, "joinGroupWithCode")
            => CodeValid(tasks[k].group.id, tasks[k].code)
       /\ (tasks[k].pc = "dbJoinInsert" /\ dbMembers' # dbMembers)
            => DbCodeValid(tasks[k].group.id, tasks[k].code)]_vars

\* C15: removeMember goes on to its write only when the acting user is the
\* group's creator (the only admin the local store knows) and the target is
\* a stored member; a removeMember that returns false leaves the stored
\* lists as they were and no write of its own pending
C15_RejectedRemove ==
  [][/\ \A k \in TaskIds :
          (tasks[k].pc = "idle" /\ tasks'[k].op = "removeMember")
            => /\ Observed(tasks'[k].group.id) # NoGroup
               /\ tasks'[k].user = Observed(tasks'[k].group.id).createdBy
               /\ tasks'[k].code \in MembersOf(Observed(tasks'[k].group.id))
     /\ rejected' # rejected
          => /\ activeStore' = activeStore
             /\ archivedStore' = archivedStore
             /\ tasks' = tasks]_vars

\* a member who did not create the group asked to remove another member and
\* was refused
C15_Witness ==
  /\ rejected.group # "none"
  /\ Observed(rejected.group) # NoGroup
  /\ rejected.by # Observed(rejected.group).createdBy
  /\ rejected.by \in MembersOf(Observed(rejected.group))
  /\ rejected.member \in MembersOf(Observed(rejected.group))
  /\ rejected.member \notin {rejected.by, Observed(rejected.group).createdBy}

\* what the caller of joinGroupWithCode gets back from the store as it is:
\* null, or the group found (StorageService returns the group to a user who
\* is a member already; SupabaseStorageService catches every error it throws
\* and returns null)
JoinResult(inviteCode, userId) ==
  LET i == ResolveCode(Loaded.active, inviteCode, now)
  IN IF i = 0 THEN "null" ELSE Loaded.active[i].id

DbJoinResult(inviteCode, user) ==
  LET i == FindIndex(dbGroups, LAMBDA r :
                r.invite_code = inviteCode /\ r.status = "active")
  IN IF i = 0 THEN "null"
     ELSE IF /\ dbGroups[i].invite_code_expires_at # Undefined
             /\ dbGroups[i].invite_code_expires_at < now
     THEN "null"
     ELSE IF IsMember(dbGroups[i].id, user) THEN "null"
     ELSE dbGroups[i].id

\* what the caller of removeMember gets back
RemoveResult(groupId, memberId, removedBy) ==
  IF RemoveMemberRejected(loadGroup(activeStore, archivedStore, now, groupId),
                          memberId, removedBy)
  THEN "false" ELSE "true"

\* the reason a join has for being refused: no live code, a group that is
\* not Active, a user who is a member
JoinReason(inviteCode, userId) ==
  LET all == activeStore \o archivedStore
      i == FindIndex(all, LAMBDA g : g.inviteCode = inviteCode)
  IN IF i = 0 THEN "invalid_or_expired_code"
     ELSE IF ~MatchesCode(all[i], inviteCode, now) THEN "invalid_or_expired_code"
     ELSE IF all[i].status # "active" THEN "group_not_active"
     ELSE IF userId \in MembersOf(all[i]) THEN "already_member"
     ELSE "accepted"

DbJoinReason(inviteCode, user) ==
  LET i == FindIndex(dbGroups, LAMBDA r : r.invite_code = inviteCode)
  IN IF i = 0 THEN "invalid_or_expired_code"
     ELSE IF /\ dbGroups[i].invite_code_expires_at # Undefined
             /\ dbGroups[i].invite_code_expires_at < now
     THEN "invalid_or_expired_code"
     ELSE IF dbGroups[i].status # "active" THEN "group_not_active"
     ELSE IF IsMember(dbGroups[i].id, user) THEN "already_member"
     ELSE "accepted"

\* the refusals the store as it is can hand out, each with its reason
Rejections ==
  IF backend = "local"
  THEN {[reason |-> JoinReason(c, u), result |-> JoinResult(c, u)] :
          c \in Codes, u \in Users}
       \cup {[reason |-> "unauthorized", result |-> RemoveResult(r[1], r[2], r[3])] :
               r \in {x \in KnownGroupIds \X Users \X Users :
                        /\ Observed(x[1]) # NoGroup
                        /\ Observed(x[1]).createdBy # x[3]}}
  ELSE {[reason |-> DbJoinReason(c, u), result |-> DbJoinResult(c, u)] :
          c \in Codes, u \in Users}

\* C16: two refusals with different reasons return results the caller can
\* tell apart
C16_DistinctRejections ==
  \A p \in Rejections, q \in Rejections :
    (p.reason # "accepted" /\ q.reason # "accepted" /\ p.reason # q.reason)
      => p.result # q.result

\* C17: with the periodic sweep firing for ever, every stored group whose
\* expiration time has passed is eventually stored as archived
AllGroupIds == {"group-1", "group-2"} \cup Range(GroupIds)

PastExpiry(id) ==
  \/ \E i \in 1..Len(activeStore) :
       /\ activeStore[i].id = id /\ activeStore[i].status # "archived"
       /\ activeStore[i].expirationTime <= now
  \/ \E i \in 1..Len(dbGroups) :
       /\ dbGroups[i].id = id /\ dbGroups[i].status # "archived"
       /\ dbGroups[i].expires_at # Undefined /\ dbGroups[i].expires_at < now

StoredArchived(id) ==
  \/ \E i \in 1..Len(archivedStore) :
       archivedStore[i].id = id /\ archivedStore[i].status = "archived"
  \/ \E i \in 1..Len(dbGroups) :
       dbGroups[i].id = id /\ dbGroups[i].status = "archived"

C17_EventuallyArchived ==
  \A id \in AllGroupIds : PastExpiry(id) ~> StoredArchived(id)

\* C18: a stored invite code expires when its group expires, and seven days
\* after it was issued when the group has no expiration time
C18_CodeExpiry ==
  /\ \A i \in 1..Len(activeStore) :
       activeStore[i].inviteCode # NoCode
         => activeStore[i].inviteCodeExpiresAt = activeStore[i].expirationTime
  /\ \A i \in 1..Len(dbGroups) :
       dbGroups[i].invite_code # NoCode
         => dbGroups[i].invite_code_expires_at =
              IF dbGroups[i].expires_at # Undefined
              THEN dbGroups[i].expires_at
              ELSE dbGroups[i].created_at + InviteCodeDays * Day

\* an archive trigger of process_expired_groups holds for row r
DbShouldArchive(r, messages, t) ==
  \/ r.expires_at # Undefined /\ r.expires_at < t
  \/ r.inactivity_threshold # Undefined
       /\ r.last_activity < t - Day * r.inactivity_threshold
  \/ r.message_limit # Undefined /\ MessageCountOf(messages, r.id) >= r.message_limit

\* C19: a sweep leaves no group in Expiring status for which an archive
\* trigger holds: it archives the Expiring groups as it does the Active ones
C19_ExpiringEvaluated ==
  /\ LET after == processExpiredGroups(activeStore, archivedStore, now).active
     IN \A i \in 1..Len(after) :
          after[i].status = "expiring_soon" => ~ShouldArchive(after[i], now)
  /\ LET after == process_expired_groups(dbGroups, dbMessages, now)
     IN \A i \in 1..Len(after) :
          after[i].status = "expiring" => ~DbShouldArchive(after[i], dbMessages, now)

\* the ids of the groups in a list
IdsOf(groups) == {groups[i].id : i \in 1..Len(groups)}

\* C20: when a sweep ends, by returning, by a failed write or by the app
\* being closed, every group it loaded is stored either in the active list,
\* not archived, or in the archived list with all archive fields, and in
\* one of the two lists only
C20_NoHalfTransition ==
  [][\A k \in TaskIds :
       (tasks[k].op = "processExpiredGroups" /\ tasks'[k].pc = "idle")
         => \A id \in IdsOf(tasks[k].active) \cup IdsOf(tasks[k].archived) :
              \/ /\ id \in IdsOf(activeStore') /\ id \notin IdsOf(archivedStore')
                 /\ \A i \in 1..Len(activeStore') :
                      activeStore'[i].id = id => activeStore'[i].status # "archived"
              \/ /\ id \in IdsOf(archivedStore') /\ id \notin IdsOf(activeStore')
                 /\ \A i \in 1..Len(archivedStore') :
                      archivedStore'[i].id = id
                        => IsArchivedRecord(archivedStore'[i].status,
                                            archivedStore'[i].disbandedAt,
                                            archivedStore'[i].disbandReason,
                                            archivedStore'[i].archivedUntil)]_vars

\* C21: the inactivity trigger includes its boundary: after a sweep at a time
\* exactly inactivityThreshold days after its last activity, no group is
\* left unarchived
C21_InactivityInclusive ==
  Swept =>
    /\ \A i \in 1..Len(activeStore) :
         LET g == activeStore[i]
         IN ~(/\ g.status # "archived"
              /\ g.inactivityThreshold # 0
              /\ now - g.lastActivity = g.inactivityThreshold * Day)
    /\ \A i \in 1..Len(dbGroups) :
         LET r == dbGroups[i]
         IN ~(/\ r.status # "archived"
              /\ r.inactivity_threshold # Undefined
              /\ now - r.last_activity = r.inactivity_threshold * Day)

\* C22: the step that stores new messages of a group raises the group's
\* stored messageCount by the number of messages it adds
C22_CountedMessages ==
  [][\A i \in 1..Len(activeStore), j \in 1..Len(activeStore') :
       (/\ activeStore[i].id = activeStore'[j].id
        /\ Len(activeStore'[j].messages) > Len(activeStore[i].messages))
         => activeStore'[j].messageCount =
              activeStore[i].messageCount
                + Len(activeStore'[j].messages) - Len(activeStore[i].messages)]_vars

\* the client's predicate on the creation and expiration time of a row
ClientExpiring(createdAt, expiresAt, t) ==
  PercentRemainingBelowTenth([createdAt |-> createdAt, expirationTime |-> expiresAt], t)

C24_ExpiryAfterCreation ==
  /\ \A i \in 1..Len(activeStore \o archivedStore) :
       (activeStore \o archivedStore)[i].expirationTime
         > (activeStore \o archivedStore)[i].createdAt
  /\ \A i \in 1..Len(dbGroups) :
       dbGroups[i].expires_at # Undefined
         => dbGroups[i].expires_at > dbGroups[i].created_at

\* C25: with no call in flight, every row of public.groups has a
\* group_members row for its creator with the admin role
C25_CreatorIsAdmin ==
  Quiescent =>
    \A i \in 1..Len(dbGroups) :
      \E j \in 1..Len(dbMembers) :
        /\ dbMembers[j].group_id = dbGroups[i].id
        /\ dbMembers[j].user_id = dbGroups[i].created_by
        /\ dbMembers[j].role = "admin"

\* a legacy group is on Supabase: its row, its creator's membership, and
\* every one of its legacy messages
Transferred(i) ==
  /\ \E j \in 1..Len(dbGroups) : dbGroups[j].id = MigratedIds[i]
  /\ IsMember(MigratedIds[i], "you")
  /\ \A n \in 1..Len(LegacyGroups[i].messages) :
       \E msg \in dbMessages :
         msg.id = LegacyGroups[i].messages[n] /\ msg.group_id = MigratedIds[i]

StoredMessages ==
  UNION ({Range(activeStore[i].messages) : i \in 1..Len(activeStore)}
           \cup {Range(archivedStore[i].messages) : i \in 1..Len(archivedStore)})

\* C27: a message that was accepted and saved to a group is never lost: once
\* every call in flight has returned, each message sent so far is stored
\* with a group, whatever sweep or other save ran concurrently with its send.
C27_NoLostMessage ==
  (\A k \in TaskIds : tasks[k].pc = "idle") =>
    \A n \in 1..msgSeq : MessageIds[n] \in StoredMessages

\* C28: no group id occurs more than once across the stored active and
\* archived lists: a group is never stored as both active and archived, and
\* never twice in one list.
C28_StoredOnce ==
  Cardinality(IdsOf(activeStore) \cup IdsOf(archivedStore))
    = Len(activeStore) + Len(archivedStore)

\* C29: once a group is stored as Archived, no user operation changes its
\* stored record: a step of a call other than the sweep leaves every record
\* of the archived list as it was.
C29_ArchivedFrozen ==
  [][\A k \in TaskIds :
       (tasks[k].op \notin {"none", "processExpiredGroups"} /\ tasks'[k] # tasks[k])
         => \A i \in 1..Len(archivedStore), j \in 1..Len(archivedStore') :
              (archivedStore[i].status = "archived"
                 /\ archivedStore[i].id = archivedStore'[j].id)
                => archivedStore'[j] = archivedStore[i]]_vars

\* C30: once every listener of the group has unsubscribed, no realtime
\* channel created for the group remains open: each channel created by a
\* subscribe call is removed.
C30_NoChannelLeft ==
  realtime.listeners = <<>> => realtime.channels = {}

====
